---- MODULE Spec2Model ----
(***************************************************************************)
(* A model of scripts/make-demo-gif.py: the log reader and sampler         *)
(* (load_updates), the frame renderer (terminal_frame) and the assembler   *)
(* (main).                                                                 *)
(*                                                                         *)
(* A character is a one-character string.  A line is a sequence of         *)
(* characters without a newline.  A text (a Python str) is the non-empty   *)
(* sequence of the lines between its "\n" characters, so the empty string  *)
(* is << <<>> >> and "a\n" is << <<"a">>, <<>> >>.  The alphabet has one    *)
(* whitespace character besides the newline, the space.                    *)
(***************************************************************************)
EXTENDS Integers, Sequences, FiniteSets, TLC

VARIABLES
    pc,             \* where main() stands
    mode,           \* which family of logs this run reads (a bound of the model)
    line,           \* the log line the scan consumed last
    last_end,       \* history: the last codex_search end event read
    last_told,      \* history: the last such event whose trimmed text is non-empty
    updates,        \* load_updates: updates
    final_summary,  \* load_updates: final_summary
    pre_sample,     \* history: updates as it was before line 52
    main_updates,   \* main: updates
    font,           \* main: font
    frames,         \* main: frames
    durations,      \* main: durations
    out_dir,        \* whether OUT_PATH.parent exists
    old_file,       \* history: the content of OUT_PATH when the run began
    out_file,       \* the content of OUT_PATH
    writes,         \* how many times OUT_PATH was written in this run
    rpc,            \* where terminal_frame() stands
    text,           \* terminal_frame: text
    todo_lines,     \* terminal_frame: what the loop of line 77 has left
    tf_line,        \* terminal_frame: line, in the loop of line 77
    wrapped,        \* terminal_frame: wrapped
    wrapped_lines,  \* terminal_frame: wrapped_lines
    y,              \* terminal_frame: y
    drawn           \* what draw.text has put on the body of the image

main_vars == <<pc, mode, line, last_end, last_told, updates, final_summary,
               pre_sample, main_updates, font, frames, durations, out_dir,
               old_file, out_file, writes>>
frame_vars == <<rpc, text, todo_lines, tf_line, wrapped, wrapped_lines, y, drawn>>
vars == <<main_vars, frame_vars>>

None == "None"

\* ------------------------------------------------------------ constants
HEIGHT == 560
PROMPT_Y == 60
PROMPT_SKIP == 32
BOTTOM_GAP == 36
LINE_SKIP == 24
WRAP_WIDTH == 64
SUMMARY_LINES == 7
SAMPLE_OVER == 14
SAMPLE_TARGET == 12
HOLD == 520
FIRST_HOLD == 900
LAST_HOLD == 1700

\* --------------------------------------------------------------- bounds
MaxUpdates == 37
MaxRichUpdates == 2
MaxWords == 2
MaxTextLines == 21

\* ------------------------------------------------------------- str
Last(s) == s[Len(s)]
Front(s) == SubSeq(s, 1, Len(s) - 1)

IsSpace(c) == c = " "
AllSpace(l) == \A i \in 1..Len(l) : IsSpace(l[i])

NonSpaces(l) == {i \in 1..Len(l) : ~IsSpace(l[i])}

LStripLine(l) ==
    IF AllSpace(l) THEN <<>>
    ELSE SubSeq(l, CHOOSE i \in NonSpaces(l) : \A j \in NonSpaces(l) : i <= j, Len(l))

RStripLine(l) ==
    IF AllSpace(l) THEN <<>>
    ELSE SubSeq(l, 1, CHOOSE i \in NonSpaces(l) : \A j \in NonSpaces(l) : i >= j)

\* str.lstrip(): the newline is whitespace too.
RECURSIVE LStrip(_)
LStrip(t) ==
    IF Len(t) > 1 /\ AllSpace(t[1]) THEN LStrip(Tail(t))
    ELSE <<LStripLine(t[1])>> \o Tail(t)

RECURSIVE RStrip(_)
RStrip(t) ==
    IF Len(t) > 1 /\ AllSpace(Last(t)) THEN RStrip(Front(t))
    ELSE Front(t) \o <<RStripLine(Last(t))>>

\* str.strip()
Strip(t) == RStrip(LStrip(t))

EmptyText == << <<>> >>
\* bool(str)
Truthy(t) == t # EmptyText

\* str.splitlines(): no empty last piece after a final newline.
SplitLines(t) == IF Last(t) = <<>> THEN Front(t) ELSE t

\* "\n".join(lines)
JoinLines(ls) == IF ls = <<>> THEN EmptyText ELSE ls

\* s + t
Concat(s, t) == Front(s) \o <<Last(s) \o t[1]>> \o Tail(t)

\* list[:n]
Take(s, n) == SubSeq(s, 1, IF Len(s) < n THEN Len(s) ELSE n)

\* dict.get(key, default)
Get(d, k, default) == IF k \in DOMAIN d THEN d[k] ELSE default

EmptyDict == <<>>

\* the literal "Done.\n"
DONE_PREFIX == << <<"D", "o", "n", "e", ".">>, <<>> >>

\* ------------------------------------------------------------ the log
UPDATE == "tool_execution_update"
END == "tool_execution_end"
TOOL == "codex_search"

NoSummary == <<>>
NoEvent == <<>>
NoLine == [kind |-> "none"]

Chars(c, n) == [i \in 1..n |-> c]
Text1(l) == <<l>>

T_a == Text1(<<"a">>)
T_b == Text1(<<"b">>)
T_padded == Text1(<<" ", "a", " ">>)
T_spaces == Text1(<<" ", " ">>)
T_blank_lines == << <<" ">>, <<" ">> >>
T_done_a == << <<"D", "o", "n", "e", ".">>, <<"a">> >>
T_nine == [i \in 1..(SUMMARY_LINES + 2) |-> IF i % 2 = 1 THEN <<"a">> ELSE <<"b">>]
T_framed == << <<>>, <<" ", "a">>, <<"b", " ">>, <<>> >>

Item(t) == [text |-> t]
NoTextItem == [other |-> T_a]

\* The payloads an event may carry under partialResult or result.
Payloads(texts) ==
    {EmptyDict, [content |-> <<>>], [content |-> <<NoTextItem>>]}
        \cup {[content |-> <<Item(t), Item(T_b)>>] : t \in texts}

UpdateTexts == {T_a, T_b, T_padded, T_spaces, T_done_a, EmptyText}
EndTexts == {T_a, T_nine, T_framed, T_blank_lines, EmptyText}

UpdateEvent(tool, p) == [type |-> UPDATE, toolName |-> tool, partialResult |-> p]
EndEvent(tool, p) == [type |-> END, toolName |-> tool, result |-> p]

RichEvents ==
    {UpdateEvent(TOOL, p) : p \in Payloads(UpdateTexts)}
        \cup {EndEvent(TOOL, p) : p \in Payloads(EndTexts)}
        \cup {[type |-> UPDATE, toolName |-> TOOL],
              [type |-> END, toolName |-> TOOL],
              [type |-> UPDATE, toolName |-> TOOL, result |-> [content |-> <<Item(T_a)>>]],
              [type |-> END, toolName |-> TOOL, partialResult |-> [content |-> <<Item(T_a)>>]],
              [toolName |-> TOOL, partialResult |-> [content |-> <<Item(T_a)>>]],
              [type |-> UPDATE, partialResult |-> [content |-> <<Item(T_a)>>]],
              [type |-> "tool_execution_start", toolName |-> TOOL,
               partialResult |-> [content |-> <<Item(T_a)>>],
               result |-> [content |-> <<Item(T_a)>>]],
              UpdateEvent("bash", [content |-> <<Item(T_a)>>]),
              EndEvent("bash", [content |-> <<Item(T_a)>>])}

LongEvents ==
    {UpdateEvent(TOOL, [content |-> <<Item(T_a)>>]),
     UpdateEvent(TOOL, [content |-> <<Item(T_b)>>]),
     EndEvent(TOOL, [content |-> <<Item(T_nine)>>])}

Object(e) == [kind |-> "object", event |-> e]
BlankLine == [kind |-> "blank"]
InvalidLine == [kind |-> "invalid"]
ScalarLine == [kind |-> "scalar"]

\* The lines a log of the given family may hold.
LogLines(m) ==
    IF m = "rich"
    THEN {BlankLine, InvalidLine, ScalarLine} \cup {Object(e) : e \in RichEvents}
    ELSE {BlankLine} \cup {Object(e) : e \in LongEvents}

UpdateBound(m) == IF m = "rich" THEN MaxRichUpdates ELSE MaxUpdates

\* ----------------------------------------------------- load_updates
IsUpdate(event) ==
    Get(event, "type", None) = UPDATE /\ Get(event, "toolName", None) = TOOL

IsEnd(event) ==
    Get(event, "type", None) = END /\ Get(event, "toolName", None) = TOOL

UpdateContent(event) == Get(Get(event, "partialResult", EmptyDict), "content", <<>>)
EndContent(event) == Get(Get(event, "result", EmptyDict), "content", <<>>)
FirstText(content) == Strip(Get(content[1], "text", EmptyText))

\* AppendUpdate without the test that the text is not empty.
AppendAnyUpdate(ups, t) ==
    IF ups = <<>> \/ Last(ups) # t THEN Append(ups, t) ELSE ups

AppendUpdate(ups, t) ==
    IF Truthy(t) /\ (ups = <<>> \/ Last(ups) # t) THEN Append(ups, t) ELSE ups

Summary(t) == JoinLines(Take(SplitLines(t), SUMMARY_LINES))

\* NewSummary that keeps the first summary it captured.
KeepFirstSummary(fs, content) ==
    IF fs = NoSummary /\ content # <<>> /\ Truthy(FirstText(content))
    THEN Summary(FirstText(content))
    ELSE fs

NewSummary(fs, content) ==
    IF content # <<>> /\ Truthy(FirstText(content))
    THEN Summary(FirstText(content))
    ELSE fs

\* One pass of the loop of line 21 over a line that parsed to an object.
ScanEvent(ups, fs, event) ==
    IF IsUpdate(event) /\ UpdateContent(event) = <<>>
    THEN [updates |-> ups, final_summary |-> fs]
    ELSE [updates |-> IF IsUpdate(event)
                      THEN AppendUpdate(ups, FirstText(UpdateContent(event)))
                      ELSE ups,
          final_summary |-> IF IsEnd(event)
                            THEN NewSummary(fs, EndContent(event))
                            ELSE fs]

\* updates[::step]
Stride(s, step) ==
    [i \in 1..((Len(s) + step - 1) \div step) |-> s[(i - 1) * step + 1]]

Max(a, b) == IF a > b THEN a ELSE b

\* SampleStep with the operands of the division swapped.
SampleStepSwapped(n) == Max(1, SAMPLE_TARGET \div n)

SampleStep(n) == Max(1, n \div SAMPLE_TARGET)

\* Sampled without the append of the last update.
SampledNoAppend(ups) == Stride(ups, SampleStep(Len(ups)))

Sampled(ups) ==
    LET s == Stride(ups, SampleStep(Len(ups)))
    IN IF Last(s) # Last(ups) THEN Append(s, Last(ups)) ELSE s

\* Sample that tests the length against the target, and rounds the step up.
SampleCeil(ups) ==
    IF Len(ups) > SAMPLE_TARGET
    THEN Stride(ups, (Len(ups) + SAMPLE_TARGET - 1) \div SAMPLE_TARGET)
    ELSE ups

Sample(ups) == IF Len(ups) > SAMPLE_OVER THEN Sampled(ups) ELSE ups

\* --------------------------------------------------- textwrap.wrap
\* The character classes of TextWrapper.wordsep_re, on the model's alphabet.
Letters == {"a", "b", "D", "o", "n", "e"}
IsLetter(c) == c \in Letters
IsWordChar(c) == c \in Letters
IsWordPunct(c) == IsWordChar(c) \/ c = "."

\* s[i], or no character at all outside the string.
At(s, i) == IF i >= 1 /\ i <= Len(s) THEN s[i] ELSE ""

MinOf(S) == CHOOSE x \in S : \A z \in S : x <= z
MaxOf(S) == CHOOSE x \in S : \A z \in S : x >= z

\* Where the run of character c that holds position i ends.
RunEnd(s, i, c) == MinOf({j \in i..Len(s) : At(s, j + 1) # c})

\* -{2,} followed by \w, from position i.
EmDashAt(s, i) ==
    /\ At(s, i) = "-"
    /\ At(s, i + 1) = "-"
    /\ IsWordChar(At(s, RunEnd(s, i, "-") + 1))

\* The hyphen after position e may end a chunk: two letters (or letter,
\* hyphen, letter) before it, and letter, optional hyphen, letter after it.
HyphenBreak(s, e) ==
    /\ At(s, e + 1) = "-"
    /\ \/ IsLetter(At(s, e - 1)) /\ IsLetter(At(s, e))
       \/ IsLetter(At(s, e - 2)) /\ At(s, e - 1) = "-" /\ IsLetter(At(s, e))
    /\ IsLetter(At(s, e + 2))
    /\ \/ IsLetter(At(s, e + 3))
       \/ At(s, e + 3) = "-" /\ IsLetter(At(s, e + 4))

\* The lazy word of wordsep_re may stop after position e: before a hyphen
\* that breaks (which the chunk then takes), at the end of the word, or
\* before an em-dash.
WordStop(s, e) ==
    \/ HyphenBreak(s, e)
    \/ e = Len(s)
    \/ IsSpace(At(s, e + 1))
    \/ IsWordPunct(s[e]) /\ EmDashAt(s, e + 1)

\* Where the chunk of the word that begins at i ends: the first stop wins.
WordEnd(s, i) ==
    LET e == MinOf({j \in i..Len(s) : WordStop(s, j)})
    IN IF HyphenBreak(s, e) THEN e + 1 ELSE e

ChunkEnd(s, i) ==
    IF IsSpace(s[i]) THEN RunEnd(s, i, " ")
    ELSE IF IsWordPunct(At(s, i - 1)) /\ EmDashAt(s, i) THEN RunEnd(s, i, "-")
    ELSE WordEnd(s, i)

\* TextWrapper._split with break_on_hyphens: the chunks of a line.
RECURSIVE SplitFrom(_, _)
SplitFrom(s, i) ==
    IF i > Len(s) THEN <<>>
    ELSE <<SubSeq(s, i, ChunkEnd(s, i))>> \o SplitFrom(s, ChunkEnd(s, i) + 1)

Split(s) == SplitFrom(s, 1)

RECURSIVE Flatten(_)
Flatten(ss) == IF ss = <<>> THEN <<>> ELSE ss[1] \o Flatten(Tail(ss))

\* The inner loop of _wrap_chunks: chunks go on the line while they fit.
RECURSIVE FillLine(_, _)
FillLine(chunks, cur_line) ==
    IF chunks # <<>> /\ Len(Flatten(cur_line)) + Len(chunks[1]) <= WRAP_WIDTH
    THEN FillLine(Tail(chunks), Append(cur_line, chunks[1]))
    ELSE [chunks |-> chunks, cur_line |-> cur_line]

\* chunk.rfind("-", 0, space_left), counted from 1 (0: not found).
RFindHyphen(chunk, p) ==
    MaxOf({0} \cup {j \in 1..p : j <= Len(chunk) /\ chunk[j] = "-"})

\* _handle_long_word as it is without break_long_words.
KeepLongWord(chunks, cur_line) ==
    IF cur_line = <<>>
    THEN [chunks |-> Tail(chunks), cur_line |-> <<chunks[1]>>]
    ELSE [chunks |-> chunks, cur_line |-> cur_line]

\* TextWrapper._handle_long_word with break_long_words and break_on_hyphens.
HandleLongWord(chunks, cur_line) ==
    LET space_left == WRAP_WIDTH - Len(Flatten(cur_line))
        chunk == chunks[1]
        hyphen == RFindHyphen(chunk, space_left)
        cut == IF /\ Len(chunk) > space_left
                  /\ hyphen > 1
                  /\ \E i \in 1..(hyphen - 1) : chunk[i] # "-"
               THEN hyphen
               ELSE space_left
    IN [chunks |-> <<SubSeq(chunk, cut + 1, Len(chunk))>> \o Tail(chunks),
        cur_line |-> Append(cur_line, SubSeq(chunk, 1, cut))]

\* TextWrapper._wrap_chunks with drop_whitespace and no max_lines.
RECURSIVE WrapChunks(_, _)
WrapChunks(chunks, lines) ==
    IF chunks = <<>> THEN lines
    ELSE LET kept == IF AllSpace(chunks[1]) /\ lines # <<>>
                     THEN Tail(chunks) ELSE chunks
             filled == FillLine(kept, <<>>)
             broken == IF filled.chunks # <<>> /\ Len(filled.chunks[1]) > WRAP_WIDTH
                       THEN HandleLongWord(filled.chunks, filled.cur_line)
                       ELSE filled
             cur_line == IF broken.cur_line # <<>> /\ AllSpace(Last(broken.cur_line))
                         THEN Front(broken.cur_line) ELSE broken.cur_line
         IN WrapChunks(broken.chunks,
                       IF cur_line # <<>> THEN Append(lines, Flatten(cur_line))
                       ELSE lines)

\* textwrap.wrap(line, width=64)
Wrap(l) == WrapChunks(Split(l), <<>>)

\* x or [""]
OrEmptyLine(ls) == IF ls = <<>> THEN << <<>> >> ELSE ls

\* --------------------------------------------------- terminal_frame
BODY_Y == PROMPT_Y + PROMPT_SKIP

\* CanDraw against the bottom of the image.
CanDrawToBottom(at_y) == ~(at_y > HEIGHT)

\* The loop of line 81 goes on to draw at y.
CanDraw(at_y) == ~(at_y > HEIGHT - BOTTOM_GAP)

\* Lines 76-79: every line of the text, wrapped.
WrappedLines(t) ==
    LET ls == OrEmptyLine(SplitLines(t))
    IN Flatten([i \in 1..Len(ls) |-> OrEmptyLine(Wrap(ls[i]))])

\* Lines 81-85: the wrapped lines drawn from at_y on.
RECURSIVE DrawFrom(_, _, _)
DrawFrom(ws, at_y, done) ==
    IF ws = <<>> \/ ~CanDraw(at_y) THEN done
    ELSE DrawFrom(Tail(ws), at_y + LINE_SKIP, Append(done, [y |-> at_y, line |-> ws[1]]))

\* The image terminal_frame returns: the font of the chrome, and the body.
TerminalFrame(t, f) == [font |-> f, body |-> DrawFrom(WrappedLines(t), BODY_Y, <<>>)]

\* terminal_frame step by step.
FrameBegin ==
    /\ rpc = "begin"
    /\ y' = BODY_Y
    /\ wrapped_lines' = <<>>
    /\ todo_lines' = OrEmptyLine(SplitLines(text))
    /\ rpc' = "wrap"
    /\ UNCHANGED <<text, tf_line, wrapped, drawn, main_vars>>

WrapLine ==
    /\ rpc = "wrap"
    /\ todo_lines # <<>>
    /\ tf_line' = todo_lines[1]
    /\ wrapped' = OrEmptyLine(Wrap(todo_lines[1]))
    /\ wrapped_lines' = wrapped_lines \o wrapped'
    /\ todo_lines' = Tail(todo_lines)
    /\ UNCHANGED <<rpc, text, y, drawn, main_vars>>

WrapEnd ==
    /\ rpc = "wrap"
    /\ todo_lines = <<>>
    /\ rpc' = "draw"
    /\ UNCHANGED <<text, todo_lines, tf_line, wrapped, wrapped_lines, y, drawn, main_vars>>

DrawLine ==
    /\ rpc = "draw"
    /\ Len(drawn) < Len(wrapped_lines)
    /\ CanDraw(y)
    /\ drawn' = Append(drawn, [y |-> y, line |-> wrapped_lines[Len(drawn) + 1]])
    /\ y' = y + LINE_SKIP
    /\ UNCHANGED <<rpc, text, todo_lines, tf_line, wrapped, wrapped_lines, main_vars>>

DrawEnd ==
    /\ rpc = "draw"
    /\ Len(drawn) = Len(wrapped_lines) \/ ~CanDraw(y)
    /\ rpc' = "returned"
    /\ UNCHANGED <<text, todo_lines, tf_line, wrapped, wrapped_lines, y, drawn, main_vars>>

\* ---------------------------------------------------------------- main
NoFile == [state |-> "absent"]
OldFile == [state |-> "stale"]

\* Durations with the two assignments in the other order.
DurationsLastFirst(n) ==
    LET all == [i \in 1..n |-> HOLD]
        last == [all EXCEPT ![n] = LAST_HOLD]
    IN [last EXCEPT ![1] = FIRST_HOLD]

Durations(n) ==
    LET all == [i \in 1..n |-> HOLD]
        first == [all EXCEPT ![1] = FIRST_HOLD]
    IN [first EXCEPT ![n] = LAST_HOLD]

MakeOutDir ==
    /\ pc = "start"
    /\ out_dir' = TRUE
    /\ pc' = "scan"
    /\ UNCHANGED <<mode, line, last_end, last_told, updates, final_summary, pre_sample,
                   main_updates, font, frames, durations, old_file, out_file, writes,
                   frame_vars>>

IsCodexEnd(l) ==
    /\ l.kind = "object"
    /\ "type" \in DOMAIN l.event /\ l.event.type = END
    /\ "toolName" \in DOMAIN l.event /\ l.event.toolName = TOOL

\* The text an event carries under the given key, "" when it carries none.
TextUnder(e, key) ==
    IF key \notin DOMAIN e THEN EmptyText
    ELSE IF "content" \notin DOMAIN e[key] THEN EmptyText
    ELSE IF e[key].content = <<>> THEN EmptyText
    ELSE IF "text" \notin DOMAIN e[key].content[1] THEN EmptyText
    ELSE e[key].content[1].text

\* One iteration of the loop of line 21 over the next line of the log.
ScanLine(l) ==
    /\ pc = "scan"
    /\ line' = l
    /\ last_end' = IF IsCodexEnd(l) THEN l.event ELSE last_end
    /\ last_told' = IF IsCodexEnd(l) /\ Strip(TextUnder(l.event, "result")) # EmptyText
                    THEN l.event ELSE last_told
    /\ IF l.kind \in {"blank", "invalid"}
       THEN UNCHANGED <<pc, updates, final_summary>>
       ELSE IF l.kind = "scalar"
       THEN pc' = "crashed" /\ UNCHANGED <<updates, final_summary>>
       ELSE LET after == ScanEvent(updates, final_summary, l.event)
            IN /\ Len(after.updates) <= UpdateBound(mode)
               /\ updates' = after.updates
               /\ final_summary' = after.final_summary
               /\ pc' = pc
    /\ UNCHANGED <<mode, pre_sample, main_updates, font, frames, durations, out_dir,
                   old_file, out_file, writes, frame_vars>>

\* if final_summary:
HasSummary(fs) == fs # NoSummary /\ Truthy(fs)

\* The log is read to its end: lines 46-47.
AppendSummary ==
    /\ pc = "scan"
    /\ updates' = IF HasSummary(final_summary)
                  THEN Append(updates, Concat(DONE_PREFIX, final_summary))
                  ELSE updates
    /\ pc' = "scanned"
    /\ UNCHANGED <<mode, line, last_end, last_told, final_summary, pre_sample,
                   main_updates, font, frames, durations, out_dir, old_file, out_file,
                   writes, frame_vars>>

\* RaiseNoUpdates in a run that opened OUT_PATH for writing before the check.
RaiseAfterOpen ==
    /\ pc = "scanned"
    /\ updates = <<>>
    /\ out_file' = [state |-> "empty"]
    /\ pc' = "no_updates"
    /\ UNCHANGED <<mode, line, last_end, last_told, updates, final_summary, pre_sample,
                   main_updates, font, frames, durations, out_dir, old_file, writes,
                   frame_vars>>

\* Lines 49-50: the RuntimeError ends the run.
RaiseNoUpdates ==
    /\ pc = "scanned"
    /\ updates = <<>>
    /\ pc' = "no_updates"
    /\ UNCHANGED <<mode, line, last_end, last_told, updates, final_summary, pre_sample,
                   main_updates, font, frames, durations, out_dir, old_file, out_file,
                   writes, frame_vars>>

\* Lines 52-59 and line 93.
ReturnUpdates ==
    /\ pc = "scanned"
    /\ updates # <<>>
    /\ pre_sample' = updates
    /\ updates' = Sample(updates)
    /\ main_updates' = updates'
    /\ pc' = "loaded"
    /\ UNCHANGED <<mode, line, last_end, last_told, final_summary, font, frames,
                   durations, out_dir, old_file, out_file, writes, frame_vars>>

\* Lines 95-98.
LoadFont ==
    /\ pc = "loaded"
    /\ font' \in {"DejaVuSansMono.ttf", "default"}
    /\ pc' = "font"
    /\ UNCHANGED <<mode, line, last_end, last_told, updates, final_summary, pre_sample,
                   main_updates, frames, durations, out_dir, old_file, out_file, writes,
                   frame_vars>>

\* Line 100.
RenderFrames ==
    /\ pc = "font"
    /\ frames' = [i \in 1..Len(main_updates) |-> TerminalFrame(main_updates[i], font)]
    /\ pc' = "rendered"
    /\ UNCHANGED <<mode, line, last_end, last_told, updates, final_summary, pre_sample,
                   main_updates, font, durations, out_dir, old_file, out_file, writes,
                   frame_vars>>

\* Lines 102-104.
SetDurations ==
    /\ pc = "rendered"
    /\ durations' = Durations(Len(frames))
    /\ pc' = "timed"
    /\ UNCHANGED <<mode, line, last_end, last_told, updates, final_summary, pre_sample,
                   main_updates, font, frames, out_dir, old_file, out_file, writes,
                   frame_vars>>

\* Lines 106-115.
SaveGif ==
    /\ pc = "timed"
    /\ out_file' = [state |-> "gif", frames |-> frames, duration |-> durations, loop |-> 0]
    /\ writes' = writes + 1
    /\ pc' = "done"
    /\ UNCHANGED <<mode, line, last_end, last_told, updates, final_summary, pre_sample,
                   main_updates, font, frames, durations, out_dir, old_file, frame_vars>>

\* ------------------------------------------------- the specifications
MainIdle ==
    /\ line = NoLine
    /\ last_end = NoEvent
    /\ last_told = NoEvent
    /\ updates = <<>>
    /\ final_summary = NoSummary
    /\ pre_sample = <<>>
    /\ main_updates = <<>>
    /\ font = None
    /\ frames = <<>>
    /\ durations = <<>>
    /\ writes = 0

FrameIdle ==
    /\ todo_lines = <<>>
    /\ tf_line = <<>>
    /\ wrapped = <<>>
    /\ wrapped_lines = <<>>
    /\ y = PROMPT_Y
    /\ drawn = <<>>

\* A run of the script.
Init ==
    /\ pc = "start"
    /\ mode \in {"rich", "long"}
    /\ old_file \in {NoFile, OldFile}
    /\ out_dir = (old_file # NoFile)
    /\ out_file = old_file
    /\ MainIdle
    /\ rpc = "idle"
    /\ text = EmptyText
    /\ FrameIdle

Next ==
    \/ MakeOutDir
    \/ \E l \in LogLines(mode) : ScanLine(l)
    \/ AppendSummary
    \/ RaiseNoUpdates
    \/ ReturnUpdates
    \/ LoadFont
    \/ RenderFrames
    \/ SetDurations
    \/ SaveGif

Spec == Init /\ [][Next]_vars

\* The texts one call of terminal_frame is given: trimmed and not empty, as
\* every update is.
Word(n) == Chars("a", n)
WordLens == {WRAP_WIDTH \div 2 - 1, WRAP_WIDTH, WRAP_WIDTH + 1}
Seps == {<<" ">>, <<" ", " ", " ">>, <<"-">>, <<"-", "-">>}

RECURSIVE LinesOf(_)
LinesOf(n) ==
    IF n = 1 THEN {Word(k) : k \in WordLens}
    ELSE {l \o s \o Word(k) : l \in LinesOf(n - 1), s \in Seps, k \in WordLens}

\* Two words that fill a line, and a third joined to the second.
JoinedLines ==
    {Word(WRAP_WIDTH \div 2 - 1) \o <<" ">> \o Word(WRAP_WIDTH \div 2 - 1) \o s \o Word(k) :
        s \in {<<"-">>, <<"-", "-">>}, k \in WordLens}

WordLines == UNION {LinesOf(n) : n \in 1..MaxWords} \cup JoinedLines
PaddedLines ==
    {<<" ", " ">> \o l : l \in WordLines} \cup {l \o <<" ", " ">> : l \in WordLines}
        \cup {<<>>, Chars(" ", WRAP_WIDTH + 1)}
TallLines == {<<"a">>, <<>>, Word(WRAP_WIDTH) \o <<" ">> \o Word(WRAP_WIDTH)}

FrameTexts ==
    {<<l>> : l \in WordLines}
        \cup {<< <<"a">>, l, <<"a">> >> : l \in PaddedLines}
        \cup {[i \in 1..n |-> IF i \in {1, n} THEN <<"a">> ELSE l] :
                n \in 1..MaxTextLines, l \in TallLines}

\* One call of terminal_frame.
FrameInit ==
    /\ rpc = "begin"
    /\ text \in FrameTexts
    /\ FrameIdle
    /\ pc = "idle"
    /\ mode = "rich"
    /\ out_dir = FALSE
    /\ old_file = NoFile
    /\ out_file = NoFile
    /\ MainIdle

FrameNext ==
    \/ FrameBegin
    \/ WrapLine
    \/ WrapEnd
    \/ DrawLine
    \/ DrawEnd

FrameSpec == FrameInit /\ [][FrameNext]_vars

\* ------------------------------------------------------------- claims
\* load_updates has returned to main.
Returned == pc \in {"loaded", "font", "rendered", "timed", "done"}

RECURSIVE IsSubsequence(_, _)
IsSubsequence(a, b) ==
    IF a = <<>> THEN TRUE
    ELSE IF b = <<>> THEN FALSE
    ELSE IF a[1] = b[1] THEN IsSubsequence(Tail(a), Tail(b))
    ELSE IsSubsequence(a, Tail(b))

\* C1: the update sequence load_updates returns never holds two adjacent
\* elements that are equal.
C1_NoAdjacentDuplicates ==
    Returned =>
        \A i \in 1..(Len(main_updates) - 1) : main_updates[i] # main_updates[i + 1]

\* C2: the sampler's output is not empty, is an order-preserving subsequence
\* of its input, starts with the input's first element and ends with its last.
C2_SamplerKeepsEnds ==
    Returned =>
        /\ Len(main_updates) >= 1
        /\ IsSubsequence(main_updates, pre_sample)
        /\ main_updates[1] = pre_sample[1]
        /\ Last(main_updates) = Last(pre_sample)

\* A run whose sampler dropped elements and had to append the last one.
C2_Witness ==
    /\ Returned
    /\ Len(pre_sample) > 14
    /\ Len(pre_sample) % 2 = 0
    /\ Len(main_updates) < Len(pre_sample)
    /\ Len(main_updates) > 12

\* C3: n >= 1 sampled updates give n frames in update order and n durations:
\* 900 first, 1700 last, 520 between; the only frame of a run with one gets 1700.
C3_FramesAndDurations ==
    pc \in {"timed", "done"} =>
        LET n == Len(main_updates)
        IN /\ n >= 1
           /\ Len(frames) = n
           /\ Len(durations) = n
           /\ \A i \in 1..n : frames[i] = TerminalFrame(main_updates[i], font)
           /\ n = 1 => durations[1] = 1700
           /\ n >= 2 => /\ durations[1] = 900
                        /\ durations[n] = 1700
                        /\ \A i \in 2..(n - 1) : durations[i] = 520

\* A finished run of at least three frames.
C3_Witness == pc = "done" /\ Len(frames) >= 3 /\ out_file.duration = durations

Skipped(l) ==
    \/ l.kind \in {"blank", "invalid"}
    \/ /\ l.kind = "object"
       /\ \/ "type" \notin DOMAIN l.event
          \/ "toolName" \notin DOMAIN l.event
          \/ /\ "type" \in DOMAIN l.event
             /\ "toolName" \in DOMAIN l.event
             /\ \/ l.event.type \notin {UPDATE, END}
                \/ l.event.toolName # TOOL
                \/ l.event.type = UPDATE /\ TextUnder(l.event, "partialResult") = EmptyText
                \/ l.event.type = END /\ TextUnder(l.event, "result") = EmptyText

\* C5: such a line leaves the update list and the summary candidate as they
\* were and does not make the read fail.
C5_SkippedLinesChangeNothing ==
    [][(pc = "scan" /\ pc' \in {"scan", "crashed"} /\ Skipped(line'))
          => (updates' = updates /\ final_summary' = final_summary /\ pc' = "scan")]_vars

\* An update event with no text in its first item, read after updates and a
\* summary were collected.
C5_Witness ==
    /\ pc = "scan"
    /\ line = Object(UpdateEvent(TOOL, [content |-> <<NoTextItem>>]))
    /\ updates # <<>>
    /\ final_summary # NoSummary

\* "Done.", a newline, and the first 7 lines of the trimmed text of an end event.
DoneThen(e) ==
    LET t == Strip(TextUnder(e, "result"))
    IN << <<"D", "o", "n", "e", ".">> >> \o SubSeq(t, 1, IF Len(t) < 7 THEN Len(t) ELSE 7)

\* C6 as claimed: the summary appended is that of the last codex_search end
\* event of the log.
C6_LastEndEvent ==
    (pc = "scanned" /\ HasSummary(final_summary)) =>
        /\ last_end # NoEvent
        /\ Last(updates) = DoneThen(last_end)

\* C6: after the scan, a captured summary is the last element of the update
\* sequence: "Done.", a newline and the first 7 lines of the trimmed text of
\* the last codex_search end event whose trimmed text is not empty.
C6_LastToldEndEvent ==
    (pc = "scanned" /\ HasSummary(final_summary)) =>
        /\ last_told # NoEvent
        /\ Last(updates) = DoneThen(last_told)

\* A summary cut to 7 lines, from an end event that another end event and an
\* update event followed.
C6_Witness ==
    /\ pc = "scanned"
    /\ HasSummary(final_summary)
    /\ last_told # last_end
    /\ line.kind = "object" /\ IsUpdate(line.event)
    /\ Len(updates) >= 2
    /\ Len(Last(updates)) = 8

\* C7: a sequence of at most 14 updates comes back as it is, and sampling it
\* again changes nothing.
C7_ShortUnchanged ==
    (Returned /\ Len(pre_sample) <= 14) =>
        /\ main_updates = pre_sample
        /\ Sample(main_updates) = main_updates

C7_Witness == Returned /\ Len(pre_sample) = 14

\* C10: load_updates returns at most 23 updates: of more than 14, every
\* step-th one from the first on, step = max(1, floor(length / 12)), and at
\* most one more, the last.
C10_AtMost23 ==
    Returned =>
        /\ Len(main_updates) <= 23
        /\ Len(pre_sample) > 14 =>
              LET n == Len(pre_sample)
                  step == IF n \div 12 > 1 THEN n \div 12 ELSE 1
                  k == (n + step - 1) \div step
              IN /\ Len(main_updates) \in {k, k + 1}
                 /\ \A i \in 1..k : main_updates[i] = pre_sample[(i - 1) * step + 1]
                 /\ Len(main_updates) = k + 1 => main_updates[k + 1] = pre_sample[n]

\* A run that collected more than 23 updates.
C10_Witness == Returned /\ Len(pre_sample) > 23 /\ Len(main_updates) < Len(pre_sample)

\* The first position from `from` on that holds no space (Len(l) + 1: none).
FirstNonSpace(l, from) ==
    MinOf({j \in from..(Len(l) + 1) : j = Len(l) + 1 \/ l[j] # " "})

\* Where each drawn line lies in the line it was wrapped from: the first at
\* the start of the line when it is there, each other one after the
\* whitespace that follows the one before.
RECURSIVE PieceStarts(_, _, _)
PieceStarts(l, pieces, from) ==
    IF pieces = <<>> THEN <<>>
    ELSE LET at == IF from = 1 /\ SubSeq(l, 1, Len(pieces[1])) = pieces[1]
                   THEN 1 ELSE FirstNonSpace(l, from)
         IN <<at>> \o PieceStarts(l, Tail(pieces), at + Len(pieces[1]))

\* The drawn lines are parts of the line, in order, with nothing but
\* whitespace left out between, before and after them.
Placed(l, pieces) ==
    LET at == PieceStarts(l, pieces, 1)
        n == Len(pieces)
    IN /\ \A i \in 1..n : SubSeq(l, at[i], at[i] + Len(pieces[i]) - 1) = pieces[i]
       /\ \A j \in (at[n] + Len(pieces[n]))..Len(l) : l[j] = " "

\* How many characters of the line lie between drawn lines i and i + 1.
Gap(l, pieces, i) ==
    LET at == PieceStarts(l, pieces, 1)
    IN at[i + 1] - (at[i] + Len(pieces[i]))

\* The length of the word of the line that holds position p.
WordLenAt(l, p) ==
    LET from == MaxOf({j \in 1..p : j = 1 \/ l[j - 1] = " "})
        to == MinOf({j \in p..Len(l) : j = Len(l) \/ l[j + 1] = " "})
    IN to - from + 1

\* The line of the text that line 78 wrapped last.
WrappedOne == rpc \in {"wrap", "draw", "returned"} /\ wrapped # <<>>

\* C8 as claimed: a line longer than 64 characters is split into several
\* lines of at most 64 characters, each break at whitespace of the line.
C8_BreaksOnlyAtWhitespace ==
    (WrappedOne /\ Len(tf_line) > 64) =>
        /\ Len(wrapped) >= 2
        /\ \A i \in 1..Len(wrapped) : Len(wrapped[i]) <= 64
        /\ Placed(tf_line, wrapped)
        /\ \A i \in 1..(Len(wrapped) - 1) : Gap(tf_line, wrapped, i) >= 1

\* C8: every drawn line is at most 64 characters long; a line longer than 64
\* characters once its leading and trailing whitespace is removed is split
\* into several; a break falls at whitespace of the line, or beside a hyphen
\* inside a word, or inside a word longer than 64 characters.
C8_WrapBreaks ==
    /\ \A i \in 1..Len(drawn) : Len(drawn[i].line) <= 64
    /\ WrappedOne =>
        /\ \A i \in 1..Len(wrapped) : Len(wrapped[i]) <= 64
        /\ Placed(tf_line, wrapped)
        /\ Len(RStripLine(LStripLine(tf_line))) > 64 => Len(wrapped) >= 2
        /\ \A i \in 1..(Len(wrapped) - 1) :
              \/ Gap(tf_line, wrapped, i) >= 1
              \/ Last(wrapped[i]) = "-"
              \/ wrapped[i + 1][1] = "-"
              \/ WordLenAt(tf_line, PieceStarts(tf_line, wrapped, 1)[i + 1]) > 64

\* A line cut inside a word, away from any hyphen, and drawn.
C8_Witness ==
    /\ rpc = "returned"
    /\ Len(tf_line) > 64
    /\ Len(wrapped) >= 2
    /\ Len(drawn) >= 2
    /\ \E i \in 1..(Len(wrapped) - 1) :
          /\ Gap(tf_line, wrapped, i) = 0
          /\ Last(wrapped[i]) # "-"
          /\ wrapped[i + 1][1] # "-"

\* C9: the body lines drawn are the first min(k, 19) of the k wrapped lines,
\* in order, the i-th (from 0) at y = 92 + 24 * i, none at y > 524.
C9_DrawnLines ==
    /\ \A i \in 1..Len(drawn) :
          /\ drawn[i].y = 92 + 24 * (i - 1)
          /\ drawn[i].y <= 524
          /\ i <= Len(wrapped_lines)
          /\ drawn[i].line = wrapped_lines[i]
    /\ rpc = "returned" =>
          /\ wrapped_lines = WrappedLines(text)
          /\ Len(drawn) = IF Len(wrapped_lines) < 19 THEN Len(wrapped_lines) ELSE 19

\* A text of more than 19 wrapped lines, drawn.
C9_Witness == rpc = "returned" /\ Len(wrapped_lines) > 19 /\ Len(drawn) = 19

====
